---- MODULE Spec2Model ----
(***************************************************************************)
(* Client-side credential lifecycle of the retail-analytics dashboard:     *)
(* TokenManager (single-flight token refresh, proactive refresh timer),    *)
(* the axios request/response interceptors, and the AuthProvider React     *)
(* context (login, signup, logout, initializeAuth).                        *)
(*                                                                         *)
(* Execution model: one browser document, one event loop.  Every action    *)
(* below is one macrotask together with the whole microtask checkpoint     *)
(* that follows it (promise continuations never interleave with another    *)
(* task).  Assigning window.location.href only starts a navigation: the    *)
(* old document keeps handling events until PageLoad commits it.           *)
(***************************************************************************)
EXTENDS Integers, Sequences, FiniteSets, TLC

\* ---------------------------------------------------------------- bounds
MaxReq == 2        \* request slots usable concurrently
MaxRefresh == 2    \* refresh network calls issued in one run
MaxTime == 2       \* clock ticks in one run

\* ------------------------------------------------------------- constants
TickMs == 5 * 60 * 1000          \* granularity of the model clock, in ms
fiveMinutes == 5 * 60 * 1000     \* isTokenExpired: skew
tenMinutes == 10 * 60 * 1000     \* scheduleTokenRefresh: lead time
DefaultExpiresIn == 3600         \* performTokenRefresh: data.expires_in || 3600

AllUsers == {"u1", "u2"}

\* response.data.user as the backend returns it for account u; the second
\* account has a store_id, the first has none.
BackendUser(u) ==
    [id |-> IF u = "u1" THEN 1 ELSE 2, name |-> u \o "-name", email |-> u \o "@mail",
     store_name |-> u \o "-store", store_id |-> IF u = "u1" THEN "" ELSE "7"]

\* login/signup: the frontend profile made of response.data.user.
\* (Faulty variant: storeName is taken from name.)
toProfileStoreFromName(userData) ==
    [id |-> ToString(userData.id), name |-> userData.name, email |-> userData.email,
     storeName |-> userData.name,
     storeId |-> IF userData.store_id # "" THEN userData.store_id ELSE "1"]

toProfile(userData) ==
    [id |-> ToString(userData.id), name |-> userData.name, email |-> userData.email,
     storeName |-> userData.store_name,
     storeId |-> IF userData.store_id # "" THEN userData.store_id ELSE "1"]

\* The profile an earlier login of account u left in localStorage.
Profile(u) == toProfile(BackendUser(u))

NoUser == [id |-> "", name |-> "", email |-> "", storeName |-> "", storeId |-> ""]

\* Access tokens.  kind "jwt": three dot-separated parts whose payload decodes
\* and carries exp (seconds); "opaque": not three dot-separated parts;
\* "garbled": three parts whose payload does not parse; "noexp": a payload
\* without exp; "null": no token.
NoTok == [kind |-> "null", exp |-> 0, sub |-> "-"]
Jwt(e, u) == [kind |-> "jwt", exp |-> e, sub |-> u]
Opaque(u) == [kind |-> "opaque", exp |-> 0, sub |-> u]
Garbled(u) == [kind |-> "garbled", exp |-> 0, sub |-> u]
NoExp(u) == [kind |-> "noexp", exp |-> 0, sub |-> u]

\* Refresh tokens: owner and serial; the server may rotate the serial.
NoRT == [sub |-> "-", ser |-> 0]
RT(u, n) == [sub |-> u, ser |-> n]
Rotate(rt) == [rt EXCEPT !.ser = 3 - rt.ser]

NoExpiry == -1
NoNav == "-"
NoError == "-"

\* Token lifetimes (seconds) the backend issues.
TTLs == {300, 900}

EmptyStore ==
    [auth_token |-> NoTok, refresh_token |-> NoRT,
     token_expires_at |-> NoExpiry, user_data |-> NoUser]

IdleReq == [pc |-> "idle", kind |-> "-", attempt |-> 0, hdr |-> NoTok]

NoData == [access_token |-> NoTok, refresh_token |-> NoRT, expires_in |-> 0, parses |-> FALSE]

VARIABLES
    now,            \* Date.now(), ms
    localStorage,   \* the four persisted keys
    user,           \* AuthProvider state: user
    loading,        \* AuthProvider state: loading
    error,          \* AuthProvider state: error
    isInitialized,  \* AuthProvider state: isInitialized
    initTimer,      \* the 100 ms initializeAuth timeout is pending
    refreshPromise, \* TokenManager.refreshPromise: 0 (null) or the attempt it holds
    refreshes,      \* every performTokenRefresh execution, in issue order
    timers,         \* fire times of the pending proactive-refresh timeouts
    req,            \* requests going through the axios instance
    navigating,     \* target assigned to window.location.href, until the page loads
    teardowns,      \* 401 teardowns run by the response interceptor in this document
    rejected        \* the error the response interceptor rethrew last, until the next request

vars == <<now, localStorage, user, loading, error, isInitialized, initTimer,
          refreshPromise, refreshes, timers, req, navigating, teardowns, rejected>>


\* ---------------------------------------------------------- localStorage
getAccessToken(ls) == ls.auth_token

getRefreshToken(ls) == ls.refresh_token

\* setTokens: writes auth_token, refresh_token and token_expires_at only.
setTokens(ls, tokenData, t) ==
    [ls EXCEPT !.auth_token = tokenData.access_token,
               !.refresh_token = tokenData.refresh_token,
               !.token_expires_at = t + tokenData.expires_at * 1000]

\* clearTokens: removes all four keys.  (Faulty variant: user_data survives.)
clearTokensKeepsUser(ls) == [EmptyStore EXCEPT !.user_data = ls.user_data]

\* (Faulty variant: the refresh token survives.)
clearTokensKeepsRefresh(ls) == [EmptyStore EXCEPT !.refresh_token = ls.refresh_token]

clearTokens(ls) == EmptyStore

\* The 401 branch of the response interceptor removes two keys.
removeAuthItems(ls) == [ls EXCEPT !.auth_token = NoTok, !.user_data = NoUser]

\* --------------------------------------------------------- TokenManager
\* isTokenExpired(token): token || getAccessToken(); no token -> true; not
\* three parts -> false; JSON.parse throws -> catch -> false; no exp ->
\* (NaN - now) < fiveMinutes -> false; else (exp * 1000 - now) < fiveMinutes.
\* (Faulty variant: a token without a readable expiry counts as expired.)
isTokenExpiredUnreadable(token, ls, t) ==
    LET tokenToCheck == IF token # NoTok THEN token ELSE getAccessToken(ls)
    IN  IF tokenToCheck = NoTok THEN TRUE
        ELSE IF tokenToCheck.kind # "jwt" THEN TRUE
        ELSE (tokenToCheck.exp * 1000 - t) < fiveMinutes

isTokenExpired(token, ls, t) ==
    LET tokenToCheck == IF token # NoTok THEN token ELSE getAccessToken(ls)
    IN  IF tokenToCheck = NoTok THEN TRUE
        ELSE IF tokenToCheck.kind = "opaque" THEN FALSE
        ELSE IF tokenToCheck.kind = "garbled" THEN FALSE
        ELSE IF tokenToCheck.kind = "noexp" THEN FALSE
        ELSE (tokenToCheck.exp * 1000 - t) < fiveMinutes

\* The branch refreshAccessToken takes: return the promise already held,
\* fail at once for want of a refresh token, or start performTokenRefresh.
\* (Faulty variants: one ignores the held promise, one the missing token.)
refreshAccessTokenNoGuard(rp, ls) ==
    IF getRefreshToken(ls) = NoRT THEN "fail" ELSE "perform"

refreshAccessTokenNoTokenCheck(rp, ls) == IF rp # 0 THEN "attach" ELSE "perform"

refreshAccessToken(rp, ls) ==
    IF rp # 0 THEN "attach"
    ELSE IF getRefreshToken(ls) = NoRT THEN "fail"
    ELSE "perform"

\* What getValidAccessToken does with the stored token before any refresh.
\* (Faulty variant: with no access token stored it goes on to refresh.)
getValidAccessTokenRefreshesNull(ls, t) ==
    LET accessToken == getAccessToken(ls)
    IN  IF accessToken # NoTok /\ ~isTokenExpired(accessToken, ls, t) THEN "valid"
        ELSE "expired"

getValidAccessToken(ls, t) ==
    LET accessToken == getAccessToken(ls)
    IN  IF accessToken = NoTok THEN "noToken"
        ELSE IF ~isTokenExpired(accessToken, ls, t) THEN "valid"
        ELSE "expired"

\* The synchronous head of performTokenRefresh: fetch() is issued.
NewAttempt(refreshToken) ==
    [state |-> "fetch", sent |-> refreshToken, data |-> NoData, result |-> FALSE]

\* An attempt whose promise resolved with `result`, and one whose document
\* was unloaded under it.
Done(result) == [state |-> "done", sent |-> NoRT, data |-> NoData, result |-> result]
Aborted == [state |-> "aborted", sent |-> NoRT, data |-> NoData, result |-> FALSE]

InFlight == {id \in 1..Len(refreshes) : refreshes[id].state \in {"fetch", "json"}}

\* What getValidAccessToken resolves to once the awaited refresh resolved.
\* (Faulty variant: null whatever the refresh gave.)
resumeValueNull(result, ls) == NoTok

resumeValue(result, ls) == IF result THEN getAccessToken(ls) ELSE NoTok

\* A caller that finds refreshPromise set gets that promise and suspends on it.
\* (Faulty variant: it goes on at once with the token now stored.)
attachCallerNoWait(kind, id, ls) ==
    [IdleReq EXCEPT !.pc = "sent", !.kind = kind, !.attempt = id,
                    !.hdr = getAccessToken(ls)]

attachCaller(kind, id, ls) ==
    [IdleReq EXCEPT !.pc = "await", !.kind = kind, !.attempt = id]

\* A caller suspended in `await this.refreshAccessToken()` resumes and the
\* request interceptor dispatches the request with what it got.
resume(r, result, ls) ==
    [r EXCEPT !.pc = "sent", !.hdr = resumeValue(result, ls)]

Waiting(id) == {i \in 1..MaxReq : req[i].pc = "await" /\ req[i].attempt = id}

\* The attempt's promise resolves: the initiator clears refreshPromise, every
\* attached caller resumes; a caller that got false assigns location.href = '/'.
\* (Faulty variant: refreshPromise is left set.)
SettleKeepsMarker(id, result, ls) ==
    /\ refreshes' = [refreshes EXCEPT ![id] = Done(result)]
    /\ localStorage' = ls
    /\ refreshPromise' = refreshPromise
    /\ req' = [i \in 1..MaxReq |->
                 IF i \in Waiting(id) THEN resume(req[i], result, ls) ELSE req[i]]
    /\ navigating' = IF ~result /\ Waiting(id) # {} THEN "/" ELSE navigating

Settle(id, result, ls) ==
    /\ refreshes' = [refreshes EXCEPT ![id] = Done(result)]
    /\ localStorage' = ls
    /\ refreshPromise' = 0
    /\ req' = [i \in 1..MaxReq |->
                 IF i \in Waiting(id) THEN resume(req[i], result, ls) ELSE req[i]]
    /\ navigating' = IF ~result /\ Waiting(id) # {} THEN "/" ELSE navigating


\* ------------------------------------------------------------- backend
\* The access token the backend issues to user u at time t: a JWT living ttl
\* seconds, or (ttl = 0) a token that is not a JWT.
IssuedToken(u, t, ttl) == IF ttl = 0 THEN Opaque(u) ELSE Jwt(t \div 1000 + ttl, u)

IssuedTokens(u, t) == {IssuedToken(u, t, ttl) : ttl \in TTLs \cup {0}}

\* Access tokens an earlier run may have left in localStorage.
StoredTokens(u) == IssuedTokens(u, 0) \cup {Garbled(u), NoExp(u)}

\* Body of a 2xx answer of POST /api/auth/refresh to refresh token rt:
\* {access_token, refresh_token?, expires_in?}.  The shortest-lived tokens
\* come without expires_in.  ttl = 0 stands for a body that does not parse.
RefreshBody(rt, t, ttl, rotate) ==
    IF ttl = 0 THEN NoData
    ELSE [access_token |-> Jwt(t \div 1000 + ttl, rt.sub),
          refresh_token |-> IF rotate THEN Rotate(rt) ELSE NoRT,
          expires_in |-> IF ttl = 300 THEN 0 ELSE ttl,
          parses |-> TRUE]

\* Outcomes of a request sent through the axios instance.
Outcomes == {"ok", "401", "503", "network", "timeout"}

\* ------------------------------------------------------------- AuthProvider
IsAuthenticated == user # NoUser /\ isInitialized

\* ProtectedRoute renders <Navigate to="/login"> instead of its children.
ProtectedRouteRedirects == ~loading /\ ~IsAuthenticated

\* The catch block of login: the message kept in `error`.
loginErrorMessage(outcome, bodyError) ==
    IF outcome = "network" THEN "Network error: Cannot connect to server"
    ELSE IF outcome \in {"401", "503"} /\ bodyError THEN "response.data.error"
    ELSE "error.message"

\* The catch block of signup.
signupErrorMessage(outcome, bodyError) ==
    IF outcome = "timeout" THEN "Request timed out"
    ELSE IF outcome = "network" THEN "Network error: Cannot reach server"
    ELSE IF outcome = "503" THEN "Server temporarily unavailable"
    ELSE IF outcome = "401" /\ bodyError THEN "response.data.error"
    ELSE "error.message"

\* A document loads.  localStorage is what an earlier run left: nothing, or
\* a session (access token and profile) with or without a refresh token.
Init ==
    /\ now = 0
    /\ localStorage \in
          {EmptyStore} \cup
          {[auth_token |-> tok, refresh_token |-> rt,
            token_expires_at |-> NoExpiry, user_data |-> Profile("u1")] :
              tok \in StoredTokens("u1"), rt \in {NoRT, RT("u1", 1)}}
    /\ user = localStorage.user_data
    /\ loading = TRUE
    /\ error = ""
    /\ isInitialized = FALSE
    /\ initTimer = TRUE
    /\ refreshPromise = 0
    /\ refreshes = <<>>
    /\ timers = {}
    /\ req = [i \in 1..MaxReq |-> IdleReq]
    /\ navigating = NoNav
    /\ teardowns = 0
    /\ rejected = NoError

\* ------------------------------------------------------------- actions
\* The request interceptor: await getValidAccessToken(), attach what it
\* resolves to and dispatch; the request waits while that call is suspended
\* on a refresh.  The interceptor's dynamic import of the TokenManager module
\* is taken as served from the module cache.  Slots are taken lowest first.
Intercept(i, kind) ==
    /\ req[i].pc = "idle"
    /\ \A j \in 1..(i - 1) : req[j].pc # "idle"
    /\ navigating = NoNav
    /\ rejected' = NoError
    /\ LET g == getValidAccessToken(localStorage, now)
           b == refreshAccessToken(refreshPromise, localStorage)
           Sent(tok) == [IdleReq EXCEPT !.pc = "sent", !.kind = kind, !.hdr = tok]
           Await(id) == [IdleReq EXCEPT !.pc = "await", !.kind = kind, !.attempt = id]
       IN
       \/ /\ g = "noToken"
          /\ req' = [req EXCEPT ![i] = Sent(NoTok)]
          /\ UNCHANGED <<localStorage, refreshPromise, refreshes, navigating>>
       \/ /\ g = "valid"
          /\ req' = [req EXCEPT ![i] = Sent(getAccessToken(localStorage))]
          /\ UNCHANGED <<localStorage, refreshPromise, refreshes, navigating>>
       \/ /\ g = "expired" /\ b = "attach"
          /\ req' = [req EXCEPT ![i] = attachCaller(kind, refreshPromise, localStorage)]
          /\ UNCHANGED <<localStorage, refreshPromise, refreshes, navigating>>
       \/ /\ g = "expired" /\ b = "fail"
          /\ localStorage' = clearTokens(localStorage)
          /\ navigating' = "/"
          /\ req' = [req EXCEPT ![i] = Sent(NoTok)]
          /\ UNCHANGED <<refreshPromise, refreshes>>
       \/ /\ g = "expired" /\ b = "perform"
          /\ Len(refreshes) < MaxRefresh
          /\ refreshes' = Append(refreshes, NewAttempt(getRefreshToken(localStorage)))
          /\ refreshPromise' = Len(refreshes) + 1
          /\ req' = [req EXCEPT ![i] = Await(Len(refreshes) + 1)]
          /\ UNCHANGED <<localStorage, navigating>>

\* AuthPage.handleSubmit -> login()/signup(): the form's button is disabled
\* while loading, and the page leaves for the dashboard once authenticated.
\* setLoading(true), setError(''), then the request enters the axios instance.
\* (Faulty variant: the form can be submitted while loading.)
SubmitUngated(i, kind) ==
    /\ kind \in {"login", "signup"}
    /\ ~IsAuthenticated
    /\ loading' = TRUE
    /\ error' = ""
    /\ Intercept(i, kind)
    /\ UNCHANGED <<now, user, isInitialized, initTimer, timers, teardowns>>

Submit(i, kind) ==
    /\ kind \in {"login", "signup"}
    /\ ~loading
    /\ ~IsAuthenticated
    /\ loading' = TRUE
    /\ error' = ""
    /\ Intercept(i, kind)
    /\ UNCHANGED <<now, user, isInitialized, initTimer, timers, teardowns>>

\* Any other call through the axios instance (dashboard, cameras, ...).
ApiRequest(i) ==
    /\ Intercept(i, "api")
    /\ UNCHANGED <<now, user, loading, error, isInitialized, initTimer, timers,
                   teardowns>>

\* The proactive timer fires: its callback calls refreshAccessToken() and
\* drops the result.
TimerFire(t) ==
    /\ t \in timers
    /\ now >= t
    /\ timers' = timers \ {t}
    /\ LET b == refreshAccessToken(refreshPromise, localStorage)
       IN
       \/ /\ b = "attach"
          /\ UNCHANGED <<localStorage, refreshPromise, refreshes>>
       \/ /\ b = "fail"
          /\ localStorage' = clearTokens(localStorage)
          /\ UNCHANGED <<refreshPromise, refreshes>>
       \/ /\ b = "perform"
          /\ Len(refreshes) < MaxRefresh
          /\ refreshes' = Append(refreshes, NewAttempt(getRefreshToken(localStorage)))
          /\ refreshPromise' = Len(refreshes) + 1
          /\ UNCHANGED localStorage
    /\ UNCHANGED <<now, user, loading, error, isInitialized, initTimer, req,
                   navigating, teardowns, rejected>>

\* fetch() of performTokenRefresh resolves with a 2xx response: the code goes
\* on to await response.json().
RefreshResponseOk(id, ttl, rotate) ==
    /\ id \in 1..Len(refreshes)
    /\ refreshes[id].state = "fetch"
    /\ refreshes' = [refreshes EXCEPT
                       ![id].state = "json",
                       ![id].data = RefreshBody(refreshes[id].sent, now, ttl, rotate)]
    /\ UNCHANGED <<now, localStorage, user, loading, error, isInitialized, initTimer,
                   refreshPromise, timers, req, navigating, teardowns, rejected>>

\* fetch() resolves with a non-2xx response, or rejects (transport error):
\* clearTokens(), return false.
RefreshResponseFail(id) ==
    /\ id \in 1..Len(refreshes)
    /\ refreshes[id].state = "fetch"
    /\ Settle(id, FALSE, clearTokens(localStorage))
    /\ UNCHANGED <<now, user, loading, error, isInitialized, initTimer, timers,
                   teardowns, rejected>>

\* The tokenData performTokenRefresh hands to setTokens.  (Faulty variant: the
\* refresh token that was sent is kept even when the server sent a new one.)
tokenDataOfKeepsOld(data, refreshToken) ==
    [access_token |-> data.access_token,
     refresh_token |-> refreshToken,
     expires_at |-> IF data.expires_in # 0 THEN data.expires_in ELSE DefaultExpiresIn]

tokenDataOf(data, refreshToken) ==
    [access_token |-> data.access_token,
     refresh_token |-> IF data.refresh_token # NoRT THEN data.refresh_token
                       ELSE refreshToken,
     expires_at |-> IF data.expires_in # 0 THEN data.expires_in ELSE DefaultExpiresIn]

\* response.json() settles: setTokens() and return true, or the catch block.
RefreshJson(id) ==
    /\ id \in 1..Len(refreshes)
    /\ refreshes[id].state = "json"
    /\ IF refreshes[id].data.parses
       THEN Settle(id, TRUE,
                   setTokens(localStorage,
                             tokenDataOf(refreshes[id].data, refreshes[id].sent), now))
       ELSE Settle(id, FALSE, clearTokens(localStorage))
    /\ UNCHANGED <<now, user, loading, error, isInitialized, initTimer, timers,
                   teardowns, rejected>>

\* The response interceptor's error handler: on a 401 it removes auth_token
\* and user_data and assigns location.href = '/login'; every error is rethrown.
\* (Faulty variant: every error tears the session down.)
responseInterceptorAnyError(outcome, ls) == removeAuthItems(ls)

responseInterceptor(outcome, ls) == IF outcome = "401" THEN removeAuthItems(ls) ELSE ls

Rejected(i, outcome) ==
    /\ req[i].pc = "sent"
    /\ outcome \in Outcomes \ {"ok"}
    /\ req' = [req EXCEPT ![i] = IdleReq]
    /\ navigating' = IF outcome = "401" THEN "/login" ELSE navigating
    /\ teardowns' = IF outcome = "401" THEN teardowns + 1 ELSE teardowns
    /\ rejected' = outcome
    /\ localStorage' = responseInterceptor(outcome, localStorage)

\* What login() and signup() write to localStorage: user_data and auth_token.
\* (Faulty variant: a refresh token is stored with them.)
storeLoginWithRefresh(ls, userData, token) ==
    [ls EXCEPT !.user_data = userData, !.auth_token = token,
               !.refresh_token = RT(token.sub, 1)]

storeLogin(ls, userData, token) ==
    [ls EXCEPT !.user_data = userData, !.auth_token = token]

\* login()/signup() get a 2xx response {token, user}: setUser, store user_data
\* and auth_token, setLoading(false).
LoginResponseOk(i, u, ttl) ==
    /\ req[i].pc = "sent"
    /\ req[i].kind \in {"login", "signup"}
    /\ req' = [req EXCEPT ![i] = IdleReq]
    /\ user' = toProfile(BackendUser(u))
    /\ localStorage' = storeLogin(localStorage, toProfile(BackendUser(u)),
                                IssuedToken(u, now, ttl))
    /\ loading' = FALSE
    /\ UNCHANGED <<now, error, isInitialized, initTimer, refreshPromise, refreshes,
                   timers, navigating, teardowns, rejected>>

\* login()/signup() fail: the interceptor runs, then catch keeps a message
\* and finally sets loading to false.
LoginResponseFail(i, outcome, bodyError) ==
    /\ req[i].kind \in {"login", "signup"}
    /\ Rejected(i, outcome)
    /\ error' = IF req[i].kind = "login" THEN loginErrorMessage(outcome, bodyError)
                ELSE signupErrorMessage(outcome, bodyError)
    /\ loading' = FALSE
    /\ UNCHANGED <<now, user, isInitialized, initTimer, refreshPromise, refreshes,
                   timers>>

\* Any other request completes; on an error the interceptor runs and the
\* error goes back to the caller.
ApiResponse(i, outcome) ==
    /\ req[i].kind = "api"
    /\ IF outcome = "ok"
       THEN /\ req[i].pc = "sent"
            /\ req' = [req EXCEPT ![i] = IdleReq]
            /\ UNCHANGED <<localStorage, navigating, teardowns, rejected>>
       ELSE Rejected(i, outcome)
    /\ UNCHANGED <<now, user, loading, error, isInitialized, initTimer, refreshPromise,
                   refreshes, timers>>

\* logout(): setUser(null), remove user_data and auth_token, setError('').
\* (Faulty variant: a call that finds no access token clears what is left.)
logoutThenSweep(ls) ==
    IF ls.auth_token # NoTok THEN [ls EXCEPT !.user_data = NoUser, !.auth_token = NoTok]
    ELSE EmptyStore

logout(ls) == [ls EXCEPT !.user_data = NoUser, !.auth_token = NoTok]

\* Header.handleLogout: the button is rendered while isAuthenticated.
Logout ==
    /\ IsAuthenticated
    /\ user' = NoUser
    /\ localStorage' = logout(localStorage)
    /\ error' = ""
    /\ UNCHANGED <<now, loading, isInitialized, initTimer, refreshPromise, refreshes,
                   timers, req, navigating, teardowns, rejected>>

\* clearError(): setError('').
ClearError ==
    /\ error' = ""
    /\ UNCHANGED <<now, localStorage, user, loading, isInitialized, initTimer,
                   refreshPromise, refreshes, timers, req, navigating, teardowns, rejected>>

\* initializeAuth: with auth_token and user_data both stored the user of the
\* useState initializer stays, else setUser(null).
\* (Faulty variant: the user is always reset.)
initializeAuthUserAlwaysNull(ls, u) == NoUser

initializeAuthUser(ls, u) ==
    IF ls.auth_token # NoTok /\ ls.user_data # NoUser THEN u ELSE NoUser

\* The 100 ms timeout of the mount effect runs initializeAuth.
InitializeAuth ==
    /\ initTimer
    /\ initTimer' = FALSE
    /\ user' = initializeAuthUser(localStorage, user)
    /\ isInitialized' = TRUE
    /\ loading' = FALSE
    /\ UNCHANGED <<now, localStorage, error, refreshPromise, refreshes, timers, req,
                   navigating, teardowns, rejected>>

\* scheduleTokenRefresh: the delay of the timeout it arms, or 0 when it arms none.
\* (Faulty variant: the lead time is the five minutes of isTokenExpired.)
refreshTimeFiveMinutes(ls, t) ==
    LET token == getAccessToken(ls)
    IN  IF token = NoTok \/ isTokenExpired(token, ls, t) THEN 0
        ELSE IF token.kind # "jwt" THEN 0
        ELSE LET d == token.exp * 1000 - t - fiveMinutes
             IN  IF d > 0 THEN d ELSE 0

refreshTime(ls, t) ==
    LET token == getAccessToken(ls)
    IN  IF token = NoTok \/ isTokenExpired(token, ls, t) THEN 0
        ELSE IF token.kind = "opaque" THEN 0
        ELSE IF token.kind \in {"garbled", "noexp"} THEN 0
        ELSE LET d == token.exp * 1000 - t - tenMinutes
             IN  IF d > 0 THEN d ELSE 0

ScheduleTokenRefresh ==
    /\ refreshTime(localStorage, now) > 0
    /\ timers' = timers \cup {now + refreshTime(localStorage, now)}
    /\ UNCHANGED <<now, localStorage, user, loading, error, isInitialized, initTimer,
                   refreshPromise, refreshes, req, navigating, teardowns, rejected>>

\* The clock advances by one tick.  A tick is minutes long: the 100 ms
\* initialization timeout has fired and a started navigation has committed
\* before it passes.
Tick ==
    /\ now < MaxTime * TickMs
    /\ ~initTimer
    /\ navigating = NoNav
    /\ now' = now + TickMs
    /\ UNCHANGED <<localStorage, user, loading, error, isInitialized, initTimer,
                   refreshPromise, refreshes, timers, req, navigating, teardowns, rejected>>

\* The navigation started by an assignment to window.location.href commits:
\* the document is replaced, its timers, requests and TokenManager are gone,
\* and AuthProvider mounts again from localStorage.
PageLoad ==
    /\ navigating # NoNav
    /\ navigating' = NoNav
    /\ user' = localStorage.user_data
    /\ loading' = TRUE
    /\ error' = ""
    /\ isInitialized' = FALSE
    /\ initTimer' = TRUE
    /\ refreshPromise' = 0
    /\ refreshes' = [id \in 1..Len(refreshes) |->
                        IF refreshes[id].state = "done" THEN refreshes[id]
                        ELSE Aborted]
    /\ timers' = {}
    /\ req' = [i \in 1..MaxReq |-> IdleReq]
    /\ teardowns' = 0
    /\ rejected' = NoError
    /\ UNCHANGED <<now, localStorage>>

\* The instants a proactive timer can be armed for.
FireTimes == {k * TickMs : k \in 1..(MaxTime + 1)}

\* Every step of the system, with logins and signups as the users in `users`.
NextFor(users) ==
    \/ \E i \in 1..MaxReq, kind \in {"login", "signup"} : Submit(i, kind)
    \/ \E i \in 1..MaxReq : ApiRequest(i)
    \/ \E t \in FireTimes : TimerFire(t)
    \/ \E id \in 1..MaxRefresh, ttl \in TTLs \cup {0}, rotate \in BOOLEAN :
          RefreshResponseOk(id, ttl, rotate)
    \/ \E id \in 1..MaxRefresh : RefreshResponseFail(id)
    \/ \E id \in 1..MaxRefresh : RefreshJson(id)
    \/ \E i \in 1..MaxReq, u \in users, ttl \in TTLs \cup {0} :
          LoginResponseOk(i, u, ttl)
    \/ \E i \in 1..MaxReq, outcome \in Outcomes, bodyError \in BOOLEAN :
          LoginResponseFail(i, outcome, bodyError)
    \/ \E i \in 1..MaxReq, outcome \in Outcomes : ApiResponse(i, outcome)
    \/ Logout
    \/ ClearError
    \/ InitializeAuth
    \/ ScheduleTokenRefresh
    \/ Tick
    \/ PageLoad

Next == NextFor({"u1"})

Spec == Init /\ [][Next]_vars

\* A first visit: the document loads with nothing in localStorage.  No refresh
\* call is in flight at the start, so the steps that answer one are left out;
\* anybody may log in.
InitEmpty == Init /\ localStorage = EmptyStore

NextFromEmpty ==
    \/ \E i \in 1..MaxReq, kind \in {"login", "signup"} : Submit(i, kind)
    \/ \E i \in 1..MaxReq : ApiRequest(i)
    \/ \E t \in FireTimes : TimerFire(t)
    \/ \E i \in 1..MaxReq, u \in AllUsers, ttl \in TTLs \cup {0} :
          LoginResponseOk(i, u, ttl)
    \/ \E i \in 1..MaxReq, outcome \in Outcomes, bodyError \in BOOLEAN :
          LoginResponseFail(i, outcome, bodyError)
    \/ \E i \in 1..MaxReq, outcome \in Outcomes : ApiResponse(i, outcome)
    \/ Logout
    \/ ClearError
    \/ InitializeAuth
    \/ ScheduleTokenRefresh
    \/ Tick
    \/ PageLoad

SpecFromEmpty == InitEmpty /\ [][NextFromEmpty]_vars

\* A returning visit on a shared device: the store holds u1's session with a
\* refresh token, and whoever logs in from now on is u2.
InitReturning ==
    /\ Init
    /\ getRefreshToken(localStorage) # NoRT
    /\ getAccessToken(localStorage) = IssuedToken("u1", 0, 300)

NextShared == NextFor(AllUsers \ {"u1"})

SpecShared == InitReturning /\ [][NextShared]_vars


\* ------------------------------------------------------------- claims
\* Steps the claims speak about.
\* Request slot i enters getValidAccessToken and finds the stored token expired.
GvatExpiredCall(i) ==
    /\ req[i].pc = "idle"
    /\ req'[i].pc # "idle"
    /\ getValidAccessToken(localStorage, now) = "expired"

\* Attempt id resolves in this step, with false or with true.
SettlesFalse(id) ==
    /\ id <= Len(refreshes)
    /\ refreshes[id].state \in {"fetch", "json"}
    /\ refreshes'[id].state = "done"
    /\ ~refreshes'[id].result

SettlesTrue(id) ==
    /\ id <= Len(refreshes)
    /\ refreshes[id].state \in {"fetch", "json"}
    /\ refreshes'[id].state = "done"
    /\ refreshes'[id].result

\* C1: in every reachable state at most one refresh network call
\* (POST /api/auth/refresh) is in flight, whatever the interleaving of
\* getValidAccessToken() callers and timer callbacks.
C1_SingleFlight == Cardinality(InFlight) <= 1

\* Two callers are suspended on the one refresh call that is in flight.
C1_Witness == \E id \in InFlight : Cardinality(Waiting(id)) >= 2


\* C2 as stated: every getValidAccessToken() call that finds the stored token
\* expired leaves exactly one refresh network call in flight, the one it and
\* every other suspended caller awaits.
C2_ExactlyOneCall ==
    [][\A i \in 1..MaxReq : GvatExpiredCall(i) =>
          /\ Cardinality(InFlight') = 1
          /\ req'[i].pc = "await"
          /\ req'[i].attempt \in InFlight'
          /\ \A j \in 1..MaxReq : req'[j].pc = "await" => req'[j].attempt = req'[i].attempt
      ]_vars

\* C2 as amended: a getValidAccessToken() call that finds the stored token
\* expired issues no network call when no refresh is pending and the store
\* holds no refresh token (the store is cleared and the call resolves null);
\* otherwise exactly one refresh call is in flight after it, issued by this
\* call only if none was pending, and every suspended caller awaits that one.
C2_OneCallIfRefreshToken ==
    [][\A i \in 1..MaxReq : GvatExpiredCall(i) =>
          IF refreshPromise = 0 /\ getRefreshToken(localStorage) = NoRT
          THEN /\ refreshes' = refreshes
               /\ localStorage' = EmptyStore
               /\ req'[i].pc = "sent"
               /\ req'[i].hdr = NoTok
          ELSE /\ Cardinality(InFlight') = 1
               /\ req'[i].pc = "await"
               /\ req'[i].attempt \in InFlight'
               /\ Len(refreshes') = Len(refreshes) + (IF refreshPromise = 0 THEN 1 ELSE 0)
               /\ \A j \in 1..MaxReq :
                     req'[j].pc = "await" => req'[j].attempt = req'[i].attempt
      ]_vars

\* MaxReq callers found the token expired and one call, the only one ever
\* issued, serves them all.
C2_Witness ==
    /\ Len(refreshes) = 1
    /\ refreshes[1].state = "fetch"
    /\ Cardinality(Waiting(1)) = MaxReq

\* C3: the getValidAccessToken() callers that awaited the same refresh
\* attempt all resolved to the same value (the same token, or null).
C3_SameOutcome ==
    \A i, j \in 1..MaxReq :
        (/\ req[i].pc = "sent" /\ req[j].pc = "sent"
         /\ req[i].attempt # 0 /\ req[i].attempt = req[j].attempt)
        => req[i].hdr = req[j].hdr

\* Two callers of one attempt resumed with the refreshed token.
C3_Witness ==
    \E i, j \in 1..MaxReq :
        /\ i # j
        /\ req[i].pc = "sent" /\ req[j].pc = "sent"
        /\ req[i].attempt # 0 /\ req[i].attempt = req[j].attempt
        /\ req[i].hdr # NoTok
        /\ req[i].hdr = localStorage.auth_token

Authenticated == IsAuthenticated /\ navigating = NoNav

Unauthenticated == ~IsAuthenticated /\ ~loading /\ navigating = NoNav

\* C5: whenever the session is Authenticated the store holds an access token.
C5_AuthenticatedHasToken == Authenticated => localStorage.auth_token # NoTok

\* C6: whenever the session is Unauthenticated the store is empty: none of
\* auth_token, refresh_token, token_expires_at, user_data is present.
C6_UnauthenticatedEmptyStore == Unauthenticated => localStorage = EmptyStore

\* C7: however many in-flight requests are answered 401, the response
\* interceptor tears the session down (store-clear, navigation to /login)
\* once per document.
C7_SingleTeardown == teardowns <= 1

\* The timer callback runs refreshAccessToken() with no refresh token stored.
TimerFails ==
    /\ timers' # timers
    /\ timers' \subseteq timers
    /\ navigating' = navigating
    /\ refreshPromise = 0
    /\ getRefreshToken(localStorage) = NoRT

\* C8: when a refresh attempt fails (no refresh token stored, a non-2xx
\* response, a transport error, a body that does not parse) the store is left
\* empty, the attempt resolves false and every getValidAccessToken() caller
\* that awaited it resolves null.
C8_FailureClearsStore ==
    [][/\ \A id \in 1..MaxRefresh : SettlesFalse(id) =>
             /\ localStorage' = EmptyStore
             /\ \A i \in Waiting(id) : req'[i].pc = "sent" /\ req'[i].hdr = NoTok
       /\ \A i \in 1..MaxReq :
             (/\ GvatExpiredCall(i)
              /\ refreshPromise = 0
              /\ getRefreshToken(localStorage) = NoRT)
             => /\ localStorage' = EmptyStore
                /\ req'[i].pc = "sent" /\ req'[i].hdr = NoTok
       /\ TimerFails => localStorage' = EmptyStore
      ]_vars

\* A failed attempt left the store empty and sent its caller on without a token
\* while the session's profile was still stored when it failed.
C8_Witness ==
    \E id \in 1..Len(refreshes), i \in 1..MaxReq :
        /\ refreshes[id] = Done(FALSE)
        /\ req[i].pc = "sent" /\ req[i].attempt = id /\ req[i].hdr = NoTok
        /\ localStorage = EmptyStore
        /\ user # NoUser

\* C9: every refresh failure ends the session: after the step in which a
\* refresh fails, the session is no longer Authenticated (isAuthenticated is
\* false, or the teardown navigation has been started).
C9_FailureEndsSession ==
    [][((\E id \in 1..MaxRefresh : SettlesFalse(id)) \/ TimerFails)
          => ~Authenticated'
      ]_vars

\* C10: a successful refresh stores the access token the server returned and
\* the server's new refresh token if the response carries one, else the one
\* that was sent, and leaves the stored user profile as it was.
C10_SuccessStoresPair ==
    [][\A id \in 1..MaxRefresh : SettlesTrue(id) =>
          /\ localStorage'.auth_token = refreshes[id].data.access_token
          /\ localStorage'.refresh_token =
                IF refreshes[id].data.refresh_token # NoRT
                THEN refreshes[id].data.refresh_token
                ELSE refreshes[id].sent
          /\ localStorage'.user_data = localStorage.user_data
      ]_vars

\* A refresh succeeded with a rotated refresh token, which is now stored
\* beside the profile.
C10_Witness ==
    /\ \E id \in 1..Len(refreshes) : refreshes[id] = Done(TRUE)
    /\ localStorage.refresh_token = RT("u1", 2)
    /\ localStorage.user_data = Profile("u1")
    /\ localStorage.auth_token.kind = "jwt"


\* A request enters getValidAccessToken in this step; the four ways it leaves.
GvatCall(i) == req[i].pc = "idle" /\ req'[i].pc # "idle"

\* It returned the stored token as it is: no refresh, nothing written.
ReturnsStoredToken(i) ==
    /\ req'[i].pc = "sent"
    /\ req'[i].hdr = getAccessToken(localStorage)
    /\ req'[i].attempt = 0
    /\ refreshes' = refreshes
    /\ refreshPromise' = refreshPromise
    /\ localStorage' = localStorage
    /\ navigating' = navigating

\* C11: for a stored token with a decodable exp and the skew of 300 seconds,
\* a getValidAccessToken() call treats the token as expired (does not return
\* it as it is) if and only if now + skew >= exp, the case now + skew = exp
\* included.
C11_ExpiredIffSkew ==
    [][\A i \in 1..MaxReq :
          (GvatCall(i) /\ getAccessToken(localStorage).kind = "jwt")
          => ((now + fiveMinutes >= getAccessToken(localStorage).exp * 1000)
                <=> ~ReturnsStoredToken(i))
      ]_vars

\* C12: a getValidAccessToken() call that finds a stored token lacking a
\* decodable expiry (not three parts, a payload that does not parse, no exp)
\* returns that token unchanged, whatever the time, and issues no refresh;
\* isTokenExpired is false for such a token in every reachable state.
C12_UndecodableNeverExpires ==
    /\ [](getAccessToken(localStorage).kind \in {"opaque", "garbled", "noexp"}
            => ~isTokenExpired(getAccessToken(localStorage), localStorage, now))
    /\ [][\A i \in 1..MaxReq :
            (GvatCall(i)
             /\ getAccessToken(localStorage).kind \in {"opaque", "garbled", "noexp"})
            => ReturnsStoredToken(i)
        ]_vars

\* The clock has run to its end, a refresh token is at hand, a request carries
\* the token that has no exp, and no refresh call was ever issued.
C12_Witness ==
    /\ now = MaxTime * TickMs
    /\ getRefreshToken(localStorage) # NoRT
    /\ refreshes = <<>>
    /\ \E i \in 1..MaxReq : req[i].pc = "sent" /\ req[i].hdr = NoExp("u1")

\* C13: a getValidAccessToken() call that finds no access token in the store
\* returns null, issues no refresh call and leaves the store, the user, the
\* initialization flag and the location as they are, a stored refresh token
\* notwithstanding.
C13_NoTokenReturnsNull ==
    [][\A i \in 1..MaxReq :
          (GvatCall(i) /\ getAccessToken(localStorage) = NoTok)
          => /\ ReturnsStoredToken(i)
             /\ req'[i].hdr = NoTok
             /\ user' = user
             /\ isInitialized' = isInitialized
      ]_vars

\* A request went out without a token while a refresh token sits in the
\* store, and no refresh call was ever issued.
C13_Witness ==
    /\ getAccessToken(localStorage) = NoTok
    /\ getRefreshToken(localStorage) # NoRT
    /\ refreshes = <<>>
    /\ navigating = NoNav
    /\ \E i \in 1..MaxReq :
          req[i].pc = "sent" /\ req[i].hdr = NoTok /\ req[i].attempt = 0

\* C14: a login or signup answered {token, user} leaves the auth context
\* reporting isAuthenticated, the response's token stored as auth_token, and
\* the same profile in the context and in the store: the response's id (as a
\* string), name and email, and storeName equal to the response's store_name.
C14_LoginStoresSession ==
    [][\A i \in 1..MaxReq, u \in AllUsers, ttl \in TTLs \cup {0} :
          LoginResponseOk(i, u, ttl)
          => /\ IsAuthenticated'
             /\ ~loading'
             /\ localStorage'.auth_token = IssuedToken(u, now, ttl)
             /\ localStorage'.user_data = user'
             /\ user'.id = ToString(BackendUser(u).id)
             /\ user'.name = BackendUser(u).name
             /\ user'.email = BackendUser(u).email
             /\ user'.storeName = BackendUser(u).store_name
      ]_vars

\* A login made one tick into the run succeeded: the token it returned (exp one
\* tick plus 900 s, which no refresh issued) is stored beside the profile.
C14_Witness ==
    /\ IsAuthenticated
    /\ ~loading
    /\ refreshes = <<>>
    /\ localStorage.auth_token = Jwt(TickMs \div 1000 + 900, "u1")
    /\ localStorage.user_data.storeName = "u1-store"
    /\ user = localStorage.user_data

\* C15 as stated: whatever makes a login or signup fail (network error,
\* timeout, 503, 401), the step that handles the failure leaves loading false,
\* a non-empty error message, the store as it was, and the session
\* Unauthenticated (no navigation away from the page that shows the message).
C15_FailedLoginKeepsStore ==
    [][\A i \in 1..MaxReq, outcome \in Outcomes, bodyError \in BOOLEAN :
          LoginResponseFail(i, outcome, bodyError)
          => /\ ~loading'
             /\ error' # ""
             /\ localStorage' = localStorage
             /\ Unauthenticated'
      ]_vars

\* C16: logout() leaves none of auth_token, refresh_token, token_expires_at
\* and user_data in the store, whatever the store held before.
C16_LogoutEmptiesStore == [][Logout => localStorage' = EmptyStore]_vars

\* C17: logout() is idempotent: on the store of every reachable state two
\* calls leave what one call leaves, and in the state a logout() leaves, a
\* second logout() would write the same store, the same user (null) and the
\* same error ('') again.
C17_LogoutIdempotent ==
    /\ [](logout(logout(localStorage)) = logout(localStorage))
    /\ [][Logout => /\ logout(localStorage') = localStorage'
                    /\ user' = NoUser
                    /\ error' = ""
        ]_vars

\* logout() has run in this document on a store that held more than it
\* removes: a request sent with the token is still in flight, the token and
\* the profile are gone without any 401 teardown, the refresh token is left.
C17_Witness ==
    /\ isInitialized /\ user = NoUser /\ error = ""
    /\ teardowns = 0 /\ navigating = NoNav
    /\ getAccessToken(localStorage) = NoTok
    /\ localStorage.user_data = NoUser
    /\ getRefreshToken(localStorage) # NoRT
    /\ \E i \in 1..MaxReq : req[i].pc = "sent" /\ req[i].hdr # NoTok

\* C18: a 401 answer to any request sent through the axios instance, login
\* and signup included, leaves the store empty and a navigation to /login
\* started (the document that loads next is Unauthenticated).
C18_Any401TearsDown ==
    [][\A i \in 1..MaxReq :
          (ApiResponse(i, "401") \/ \E b \in BOOLEAN : LoginResponseFail(i, "401", b))
          => /\ localStorage' = EmptyStore
             /\ navigating' = "/login"
      ]_vars

\* C19: an ordinary request that fails with a 503, a network error or a
\* timeout changes neither the store nor the session (user, flags, message,
\* location, pending refresh and timers), and the error goes back to the caller.
C19_TransientErrorKeepsSession ==
    [][\A i \in 1..MaxReq, outcome \in Outcomes \ {"ok", "401"} :
          ApiResponse(i, outcome)
          => /\ rejected' = outcome
             /\ localStorage' = localStorage
             /\ user' = user /\ isInitialized' = isInitialized
             /\ loading' = loading /\ error' = error
             /\ navigating' = navigating /\ teardowns' = teardowns
             /\ refreshPromise' = refreshPromise /\ refreshes' = refreshes
             /\ timers' = timers
      ]_vars

\* A request of an Authenticated session has just failed with a timeout: the
\* token and the profile are still stored and no teardown has run.
C19_Witness ==
    /\ Authenticated
    /\ rejected = "timeout"
    /\ teardowns = 0
    /\ getAccessToken(localStorage) # NoTok
    /\ localStorage.user_data = user

C21_RefreshRejectionCarriesError ==
    [][\A id \in 1..MaxRefresh :
          RefreshResponseFail(id)
          => /\ localStorage' = EmptyStore
             /\ error' # ""
      ]_vars

\* C22: after a successful refresh exactly one proactive timer is armed, for
\* ten minutes before the new token's expiry, if that is in the future, and
\* none otherwise: a timer armed for the previous token is gone.
C22_RearmedAfterRefresh ==
    [][\A id \in 1..MaxRefresh :
          SettlesTrue(id)
          => timers' = IF refreshTime(localStorage', now) > 0
                       THEN {now + refreshTime(localStorage', now)}
                       ELSE {}
      ]_vars

\* C23: a refresh that resolves in a session that was logged out while the
\* call was in flight (no user, no access token stored) writes no access
\* token and no profile to the store and leaves the session without user.
C23_LateRefreshDisregarded ==
    [][\A id \in 1..MaxRefresh :
          (/\ SettlesTrue(id) \/ SettlesFalse(id)
           /\ user = NoUser /\ isInitialized
           /\ getAccessToken(localStorage) = NoTok)
          => /\ getAccessToken(localStorage') = NoTok
             /\ localStorage'.user_data = NoUser
             /\ user' = NoUser
      ]_vars

C25_LogoutCancelsTimer ==
    [][\A t \in FireTimes :
          (TimerFire(t) /\ user = NoUser /\ isInitialized)
          => refreshes' = refreshes
      ]_vars

\* C26: once a refresh attempt has failed, no refresh network call is issued
\* any more, by a request or by a timer callback: the failure left no refresh
\* token in the store, and a login or signup stores none.
C26_FailedRefreshNotRetried ==
    /\ [](\A id \in 1..Len(refreshes) :
            (refreshes[id].state = "done" /\ ~refreshes[id].result)
            => /\ id = Len(refreshes)
               /\ getRefreshToken(localStorage) = NoRT
               /\ refreshPromise = 0)
    /\ [][(\E id \in 1..Len(refreshes) :
              refreshes[id].state = "done" /\ ~refreshes[id].result)
          => refreshes' = refreshes
        ]_vars

\* A refresh failed, the user logged in again, a request left with the new
\* token, and the next one found that token expired: it left without a
\* token, the store was cleared and no second refresh call went out.
C26_Witness ==
    /\ refreshes = <<Done(FALSE)>>
    /\ IsAuthenticated
    /\ navigating = "/"
    /\ localStorage = EmptyStore
    /\ \A i \in 1..MaxReq : req[i].pc = "sent" /\ req[i].attempt = 0
    /\ \E i, j \in 1..MaxReq :
          /\ req[i].hdr = NoTok
          /\ req[j].hdr # NoTok /\ req[j].hdr.kind = "jwt"

\* C27: scheduleTokenRefresh arms a timer exactly when the stored access token
\* is a JWT whose exp lies more than ten minutes ahead; the timer is armed for
\* the instant ten minutes before exp and nothing else changes; a timer fires
\* once, not before its instant, and its callback is refreshAccessToken().
C27_TimerArmedIffDelayPositive ==
    /\ [](ENABLED ScheduleTokenRefresh
            <=> /\ getAccessToken(localStorage) # NoTok
                /\ getAccessToken(localStorage).kind = "jwt"
                /\ getAccessToken(localStorage).exp * 1000 - now - tenMinutes > 0)
    /\ [][ScheduleTokenRefresh
          => /\ timers' = timers \cup
                            {getAccessToken(localStorage).exp * 1000 - tenMinutes}
             /\ UNCHANGED <<now, localStorage, user, loading, error, isInitialized,
                            initTimer, refreshPromise, refreshes, req, navigating,
                            teardowns, rejected>>
        ]_vars
    /\ [][\A t \in FireTimes :
            TimerFire(t)
            => /\ now >= t
               /\ timers' = timers \ {t}
               /\ CASE refreshAccessToken(refreshPromise, localStorage) = "perform"
                         -> /\ Len(refreshes') = Len(refreshes) + 1
                            /\ localStorage' = localStorage
                    [] refreshAccessToken(refreshPromise, localStorage) = "fail"
                         -> /\ refreshes' = refreshes
                            /\ localStorage' = EmptyStore
                    [] OTHER
                         -> /\ refreshes' = refreshes
                            /\ localStorage' = localStorage
        ]_vars

\* The timer armed for a token issued for fifteen minutes is due: the token
\* has exactly ten minutes left, so that no further timer can be armed.
C27_Witness ==
    /\ getAccessToken(localStorage) # NoTok
    /\ getAccessToken(localStorage).kind = "jwt"
    /\ getAccessToken(localStorage).exp * 1000 - now = tenMinutes
    /\ timers = {now}
    /\ now > 0
    /\ ~ENABLED ScheduleTokenRefresh

\* C28: in a run that starts from an empty store a login or signup writes
\* auth_token and user_data only, the store never holds a refresh token, no
\* refresh network call is issued or in flight, and every getValidAccessToken()
\* call that finds the stored JWT expired clears the store and resolves to null.
C28_NoRefreshFromEmptyStore ==
    /\ [](/\ getRefreshToken(localStorage) = NoRT
          /\ localStorage.token_expires_at = NoExpiry
          /\ refreshes = <<>>
          /\ refreshPromise = 0
          /\ \A id \in 1..MaxRefresh :
                /\ ~ENABLED RefreshResponseFail(id)
                /\ ~ENABLED RefreshJson(id)
                /\ \A ttl \in TTLs \cup {0}, rotate \in BOOLEAN :
                      ~ENABLED RefreshResponseOk(id, ttl, rotate))
    /\ [][\A i \in 1..MaxReq :
            /\ \A u \in AllUsers, ttl \in TTLs \cup {0} :
                  LoginResponseOk(i, u, ttl)
                  => localStorage' =
                        [localStorage EXCEPT !.auth_token = IssuedToken(u, now, ttl),
                                             !.user_data = Profile(u)]
            /\ GvatExpiredCall(i)
               => /\ localStorage' = EmptyStore
                  /\ req'[i].pc = "sent"
                  /\ req'[i].hdr = NoTok
                  /\ req'[i].attempt = 0
        ]_vars

\* After a first visit and a login the token has run out: a request found it
\* expired, cleared the store and left without a token; no refresh call was
\* ever issued.
C28_Witness ==
    /\ now > 0
    /\ refreshes = <<>>
    /\ user # NoUser
    /\ localStorage = EmptyStore
    /\ navigating = "/"
    /\ \E i \in 1..MaxReq : req[i].pc = "sent" /\ req[i].hdr = NoTok

\* C29: the access token and the profile held in the store belong to the same
\* user.
C29_TokenAndProfileOfOneSession ==
    (getAccessToken(localStorage) # NoTok /\ localStorage.user_data # NoUser)
    => localStorage.user_data = Profile(getAccessToken(localStorage).sub)

\* C30: a login or signup that succeeds leaves the session authenticated and
\* not loading; from then on only a logout or a page load ends it; and
\* whenever a user is set the protected route does not redirect: the form is
\* disabled until the initialization timer has run, so that a login never
\* completes before it.
C30_LoggedInIsAuthenticated ==
    /\ [](user # NoUser => ~ProtectedRouteRedirects)
    /\ [](~loading => isInitialized /\ ~initTimer)
    /\ [][\A i \in 1..MaxReq, u \in AllUsers, ttl \in TTLs \cup {0} :
            LoginResponseOk(i, u, ttl)
            => /\ IsAuthenticated' /\ ~loading'
               /\ ~ProtectedRouteRedirects'
               /\ ~initTimer'
        ]_vars
    /\ [][(IsAuthenticated /\ ~IsAuthenticated') => (Logout \/ PageLoad)]_vars

\* A login submitted after the first tick has succeeded: the token it stored
\* is there, without a refresh token, and the protected route renders.
C30_Witness ==
    /\ IsAuthenticated
    /\ ~loading
    /\ ~ProtectedRouteRedirects
    /\ user = Profile("u1")
    /\ localStorage.auth_token = Jwt(TickMs \div 1000 + 300, "u1")
    /\ localStorage.refresh_token = NoRT
    /\ now = TickMs

====
